---- MODULE Spec2Model ----
(***************************************************************************)
(* Model of the method-override middleware of kataras/methodoverride       *)
(* (methodoverride.go): the options built by New, the per-request handler  *)
(* (eligibility check, extractor chain, override, delegation) and getForm, *)
(* the body-safe form reader, together with the parts of net/http that     *)
(* getForm drives (ParseMultipartForm, ParseForm, the body stream).        *)
(*                                                                         *)
(* A body is a sequence of chunks; a chunk is a <<name, value>> pair or    *)
(* the chunk Bad, which no multipart parser accepts.  A url.Values is a    *)
(* function from the keys present to the sequence of their values, with a  *)
(* flag telling the nil map from an empty one.                             *)
(***************************************************************************)
EXTENDS Integers, Sequences, FiniteSets, TLC

\* ---------------------------------------------------------------- bounds
MaxOpts == 3          \* options passed to New in the construction runs
MaxBody == 1          \* chunks of a request body
MaxQuery == 1         \* parameters of a request's query string
MaxHdrs == 2          \* override headers a request carries

\* ------------------------------------------------------------- constants
Nil == "<nil>"                         \* the nil interface{} context key
Bad == <<"%", "">>                     \* a chunk that is not a form part
CtForm == "application/x-www-form-urlencoded"
CtMultipart == "multipart/form-data"
CtJSON == "application/json"

\* strings.ToUpper on the method names the model uses
ToUpper(s) ==
  CASE s = "post" -> "POST"
    [] s = "get" -> "GET"
    [] s = "patch" -> "PATCH"
    [] s = "put" -> "PUT"
    [] s = "delete" -> "DELETE"
    [] s = "head" -> "HEAD"
    [] s = "Trace" -> "TRACE"
    [] OTHER -> s

\* textproto.CanonicalMIMEHeaderKey, as applied by http.Header.Get
CanonicalMIMEHeaderKey(s) ==
  CASE s = "X-HTTP-Method" -> "X-Http-Method"
    [] s = "X-HTTP-Method-Override" -> "X-Http-Method-Override"
    [] OTHER -> s

\* --------------------------------------------------------- url.Values
EmptyMap == [k \in {} |-> <<>>]
NilValues == [nil |-> TRUE, m |-> EmptyMap]
MakeValues == [nil |-> FALSE, m |-> EmptyMap]

\* len(form) of a url.Values (0 for the nil map)
LenValues(v) == Cardinality(DOMAIN v.m)

\* url.Values.Add
AddValue(m, k, val) ==
  [x \in (DOMAIN m) \cup {k} |->
     IF x = k THEN (IF k \in DOMAIN m THEN Append(m[k], val) ELSE <<val>>)
     ELSE m[x]]

\* url.ParseQuery / the body of parsePostForm: fold the pairs into a map
RECURSIVE AddPairs(_, _)
AddPairs(m, pairs) ==
  IF pairs = <<>> THEN m
  ELSE AddPairs(AddValue(m, pairs[1][1], pairs[1][2]), Tail(pairs))

\* copyValues(dst, src) of net/http: append every value of src to dst
RECURSIVE CopyKey(_, _, _)
CopyKey(dst, k, vals) ==
  IF vals = <<>> THEN dst ELSE CopyKey(AddValue(dst, k, vals[1]), k, Tail(vals))

RECURSIVE CopyValues(_, _)
CopyValues(dst, src) ==
  IF DOMAIN src = {} THEN dst
  ELSE LET k == CHOOSE x \in DOMAIN src : TRUE
           rest == [x \in (DOMAIN src) \ {k} |-> src[x]]
       IN CopyValues(CopyKey(dst, k, src[k]), rest)

\* url.Values.Get and form[fieldName][0]: the first value or ""
FirstValue(m, k) == IF k \in DOMAIN m /\ Len(m[k]) > 0 THEN m[k][1] ELSE ""

\* ------------------------------------------------------- request body
\* bytes.NewBuffer(data) wrapped by ioutil.NopCloser: an in-memory stream
NewBuffer(data) == [data |-> data, pos |-> 0, broken |-> FALSE]

\* What is left to read of a stream
Unread(b) == SubSeq(b.data, b.pos + 1, Len(b.data))

\* ioutil.ReadAll: drains the stream; a broken stream yields an error and
\* no data, and stays broken
ReadAll(b) ==
  [data |-> IF b.broken THEN <<>> ELSE Unread(b),
   err |-> b.broken,
   body |-> [b EXCEPT !.pos = Len(b.data)]]

\* getBody once ioutil.ReadAll has returned ra (lines 199-209)
getBodyAfter(r, resetBody, ra) ==
  IF ra.err THEN [r |-> [r EXCEPT !.Body = ra.body], data |-> <<>>, err |-> TRUE]
  ELSE [r |-> [r EXCEPT !.Body = IF resetBody THEN NewBuffer(ra.data) ELSE ra.body],
        data |-> ra.data, err |-> FALSE]

\* getBody (lines 197-210)
getBody(r, resetBody) == getBodyAfter(r, resetBody, ReadAll(r.Body))

\* --------------------------------------------------- net/http parsing
\* parsePostForm reads the body: only a url-encoded one, only on POST, PUT
\* and PATCH
ReadsPostBody(r) ==
  r.PostForm.nil /\ r.Method \in {"POST", "PUT", "PATCH"} /\ r.ContentType = CtForm

\* ParseForm, first half: PostForm from the body read as ra
SetPostForm(r, ra) ==
  IF ~r.PostForm.nil THEN r
  ELSE IF ReadsPostBody(r)
       THEN [r EXCEPT !.Body = ra.body,
                      !.PostForm = [nil |-> FALSE, m |-> AddPairs(EmptyMap, ra.data)]]
       ELSE [r EXCEPT !.PostForm = MakeValues]

\* ParseForm, second half: Form = PostForm values followed by the query's
SetForm(r) ==
  IF ~r.Form.nil THEN r
  ELSE [r EXCEPT !.Form =
          [nil |-> FALSE,
           m |-> AddPairs(CopyValues(EmptyMap, r.PostForm.m), r.RawQuery)]]

ParseFormAfter(r, ra) ==
  [r |-> SetForm(SetPostForm(r, ra)),
   err |-> ReadsPostBody(r) /\ ra.err,
   reads |-> IF ReadsPostBody(r) THEN 1 ELSE 0]

\* Request.ParseForm
ParseForm(r) == ParseFormAfter(r, ReadAll(r.Body))

ReadFormAfter(ra) ==
  [body |-> ra.body,
   err |-> ra.err \/ ra.data = <<>> \/ (\E k \in 1..Len(ra.data) : ra.data[k] = Bad),
   value |-> AddPairs(EmptyMap, ra.data)]

\* multipart.Reader.ReadForm on what is left of the body: fails on a broken
\* stream, on a chunk that is no part, and when no part is left at all
ReadForm(b) == ReadFormAfter(ReadAll(b))

\* ParseMultipartForm after its ParseForm returned pf, with rf what
\* ReadForm gives on the body as ParseForm left it: the multipart body is
\* read whatever the method, and its values are appended to Form and
\* PostForm after what ParseForm put there
ParseMultipartFormAfter(pf, rf) ==
  IF ~pf.r.MultipartForm.nil THEN [r |-> pf.r, err |-> "nil", reads |-> pf.reads]
  ELSE IF pf.r.ContentType # CtMultipart
       THEN [r |-> pf.r, err |-> "ErrNotMultipart", reads |-> pf.reads]
  ELSE IF rf.err
       THEN [r |-> [pf.r EXCEPT !.Body = rf.body], err |-> "error", reads |-> pf.reads + 1]
  ELSE [r |-> [pf.r EXCEPT !.Body = rf.body,
                           !.Form = [nil |-> FALSE, m |-> CopyValues(pf.r.Form.m, rf.value)],
                           !.PostForm = [nil |-> FALSE, m |-> CopyValues(pf.r.PostForm.m, rf.value)],
                           !.MultipartForm = [nil |-> FALSE, m |-> rf.value]],
        err |-> IF pf.err THEN "error" ELSE "nil",
        reads |-> pf.reads + 1]

ParseMultipartFormWith(pf) == ParseMultipartFormAfter(pf, ReadForm(pf.r.Body))

\* Request.ParseMultipartForm: ParseForm when Form is nil, then the
\* multipart body
ParseMultipartForm(r) ==
  ParseMultipartFormWith(IF r.Form.nil THEN ParseForm(r)
                         ELSE [r |-> r, err |-> FALSE, reads |-> 0])

\* ------------------------------------------------------------ getForm
\* getForm without its fast path: nothing cached is ever returned
CachedFormNever(r) == [form |-> NilValues, found |-> FALSE]

\* lines 138-150: the fast path over what an earlier parse left
CachedForm(r) ==
  IF LenValues(r.Form) > 0 THEN [form |-> r.Form, found |-> TRUE]
  ELSE IF LenValues(r.PostForm) > 0 THEN [form |-> r.PostForm, found |-> TRUE]
  ELSE IF ~r.MultipartForm.nil /\ LenValues(r.MultipartForm) > 0
       THEN [form |-> r.MultipartForm, found |-> TRUE]
  ELSE [form |-> NilValues, found |-> FALSE]

\* lines 179-193: the same three sets, looked at after the parse
ParsedForm(r) ==
  IF LenValues(r.Form) > 0 THEN [form |-> r.Form, found |-> TRUE]
  ELSE IF LenValues(r.PostForm) > 0 THEN [form |-> r.PostForm, found |-> TRUE]
  ELSE IF ~r.MultipartForm.nil /\ LenValues(r.MultipartForm) > 0
       THEN [form |-> r.MultipartForm, found |-> TRUE]
  ELSE [form |-> NilValues, found |-> FALSE]

\* getForm that leaves the drained stream in place after the parse
RestoreBodyNever(r, resetBody, bodyCopy) == r

\* lines 172-174: put a fresh stream over the retained copy in place
RestoreBody(r, resetBody, bodyCopy) ==
  IF resetBody THEN [r EXCEPT !.Body = NewBuffer(bodyCopy)] ELSE r

\* getForm that goes on whatever ParseMultipartForm returned
GivesUpNever(err) == FALSE

\* line 175: the errors on which getForm reports nothing
GivesUp(err) == err # "nil" /\ err # "ErrNotMultipart"

\* what getForm returns after a parse
Returned(r, c, reads) ==
  [r |-> r, form |-> c.form, found |-> c.found, reads |-> reads, parsed |-> 1]

\* lines 175-193 on the request with its body restored
Report(r, err, reads) ==
  Returned(r, IF GivesUp(err) THEN [form |-> NilValues, found |-> FALSE] ELSE ParsedForm(r),
           reads)

\* lines 172-193 once ParseMultipartForm has returned p
AfterParse(p, resetBody, bodyCopy, reads) ==
  Report(RestoreBody(p.r, resetBody, bodyCopy), p.err, reads + p.reads)

\* lines 167-193: parse, restore the body, give up on an error that is not
\* ErrNotMultipart, else report what was parsed
ParseAndReturn(r, resetBody, bodyCopy, reads) ==
  AfterParse(ParseMultipartForm(r), resetBody, bodyCopy, reads)

\* whether getForm takes the body first (line 156)
ReadsBodyFirst(m) == m = "POST" \/ m = "PUT" \/ m = "PATCH"

\* lines 157-160 and on, once getBody has returned gb
getFormBody(gb, resetBody) ==
  IF Len(gb.data) = 0
  THEN [r |-> gb.r, form |-> NilValues, found |-> FALSE, reads |-> 1, parsed |-> 0]
  ELSE ParseAndReturn(gb.r, resetBody, gb.data, 1)

\* getForm with c what its fast path finds
getFormFrom(r, resetBody, c) ==
  IF c.found THEN [r |-> r, form |-> c.form, found |-> TRUE, reads |-> 0, parsed |-> 0]
  ELSE IF resetBody /\ ReadsBodyFirst(r.Method)
       THEN getFormBody(getBody(r, resetBody), resetBody)
       ELSE ParseAndReturn(r, FALSE, <<>>, 0)

\* getForm (lines 128-194); reads counts the reads of r.Body it makes,
\* parsed the calls of ParseMultipartForm
getForm(r, resetBody) == getFormFrom(r, resetBody, CachedForm(r))

\* ------------------------------------------------------------ options
\* Option values: the closures of lines 49-105, 116-125, 219-249 by the
\* arguments they capture
Methods(methods) ==
  [kind |-> "Methods", names |-> [k \in 1..Len(methods) |-> ToUpper(methods[k])],
   key |-> Nil, inner |-> <<>>]

SaveOriginalMethod(requestContextKey) ==
  [kind |-> "SaveOriginalMethod", names |-> <<>>, key |-> requestContextKey, inner |-> <<>>]

Headers(headers) == [kind |-> "Headers", names |-> headers, key |-> Nil, inner |-> <<>>]

FormField(fieldName) == [kind |-> "FormField", names |-> <<fieldName>>, key |-> Nil, inner |-> <<>>]

Query(paramName) == [kind |-> "Query", names |-> <<paramName>>, key |-> Nil, inner |-> <<>>]

Only(o) == [kind |-> "Only", names |-> <<>>, key |-> Nil, inner |-> o]

\* Getter (lines 79-83): append the extractor to the chain
Getter(o, customFunc) == [o EXCEPT !.getters = Append(o.getters, customFunc)]

\* the extractor an option registers
GetterOf(opt) == [kind |-> opt.kind, names |-> opt.names]

\* new(options) (line 258)
NewOptions == [getters |-> <<>>, methods |-> <<>>, saveOriginalMethodContextKey |-> Nil]

\* an Only that keeps what was registered before it
ClearGettersNot(o) == o

\* the reset of Only (line 246)
ClearGetters(o) == [o EXCEPT !.getters = <<>>]

\* options.configure (lines 17-21) and the application of one option
RECURSIVE configure(_, _)
ApplyOption(o, opt) ==
  CASE opt.kind = "Methods" -> [o EXCEPT !.methods = o.methods \o opt.names]
    [] opt.kind = "SaveOriginalMethod" -> [o EXCEPT !.saveOriginalMethodContextKey = opt.key]
    [] opt.kind = "Only" -> configure(ClearGetters(o), opt.inner)
    [] OTHER -> Getter(o, GetterOf(opt))

configure(o, optSeq) ==
  IF optSeq = <<>> THEN o ELSE configure(ApplyOption(o, optSeq[1]), Tail(optSeq))

\* the default values of New (lines 260-265)
DefaultOptions ==
  << Methods(<<"POST">>),
     Headers(<<"X-HTTP-Method", "X-HTTP-Method-Override", "X-Method-Override">>),
     FormField("_method"),
     Query("_method") >>

\* a canOverride that returns true on the first entry without comparing it
canOverrideAny(o, method) == Len(o.methods) > 0

\* options.canOverride (lines 23-31)
canOverride(o, method) == \E k \in 1..Len(o.methods) : o.methods[k] = method

\* ------------------------------------------------------------- inputs
\* the options a caller passes to New
Options ==
  { Methods(<<"get", "patch">>),
    SaveOriginalMethod("_originalMethod"),
    SaveOriginalMethod(Nil),
    Headers(<<"X-Custom">>),
    FormField("alt"),
    Query("a"),
    Only(<<Headers(<<"X-Custom">>)>>),
    Only(<<FormField("_method"), Query("a")>>) }

RECURSIVE SeqsUpTo(_, _)
SeqsUpTo(S, k) ==
  IF k = 0 THEN {<<>>}
  ELSE LET shorter == SeqsUpTo(S, k - 1)
       IN shorter \cup {Append(q, x) : q \in shorter, x \in S}

\* argument lists of New in the construction runs
NewArgs == SeqsUpTo(Options, MaxOpts)

\* argument lists of New in the runs that serve a request
ServeArgs ==
  SeqsUpTo(Options, 1) \cup
  { << Methods(<<"get", "patch">>), FormField("alt") >>,
    << Methods(<<"get", "patch">>), SaveOriginalMethod("_originalMethod") >>,
    << SaveOriginalMethod("_originalMethod"), SaveOriginalMethod(Nil) >>,
    << Methods(<<"get", "patch">>), Only(<<FormField("_method"), Query("a")>>) >> }

\* request headers, by canonical name; each name carries its own value
HeaderNames == {"X-Http-Method", "X-Http-Method-Override", "X-Method-Override", "X-Custom"}
SentNames == {"X-Http-Method", "X-Method-Override", "X-Custom"}
HeaderValue(name) ==
  CASE name = "X-Http-Method" -> "head"
    [] name = "X-Method-Override" -> "OPTIONS"
    [] OTHER -> "Trace"
ReqHeaders ==
  { [name \in HeaderNames |-> IF name \in S THEN HeaderValue(name) ELSE ""] :
      S \in {T \in SUBSET SentNames : Cardinality(T) <= MaxHdrs} }

BodyChunks == {<<"_method", "put">>, <<"a", "1">>}
QueryParams == {<<"_method", "delete">>, <<"a", "2">>}
ReqMethods == {"POST", "post", "GET", "PATCH"}
ContentTypes == {CtForm, CtMultipart, CtJSON}

\* the bodies a request of content type ct can carry: only a multipart
\* body is modelled with a part that does not parse
BodiesOf(ct) ==
  SeqsUpTo(IF ct = CtMultipart THEN BodyChunks \cup {Bad} ELSE BodyChunks, MaxBody)

\* a request as the server hands it to the handler: nothing parsed yet
Request(method, header, query, ct, data, broken) ==
  [Method |-> method, Header |-> header, RawQuery |-> query, ContentType |-> ct,
   Body |-> [data |-> data, pos |-> 0, broken |-> broken],
   Form |-> NilValues, PostForm |-> NilValues, MultipartForm |-> NilValues,
   ctx |-> <<>>]

Requests ==
  UNION { { Request(method, header, query, ct, data, broken) :
              method \in ReqMethods, header \in ReqHeaders,
              query \in SeqsUpTo(QueryParams, MaxQuery),
              data \in BodiesOf(ct), broken \in BOOLEAN } : ct \in ContentTypes }

NoRequest == Request("", [name \in HeaderNames |-> ""], <<>>, CtJSON, <<>>, FALSE)
NoResponse == [Vary |-> <<>>, wroteHeader |-> FALSE, wroteBody |-> FALSE]
NotSeen == [Method |-> "", ctx |-> <<>>, body |-> <<>>, bodyErr |-> FALSE]

\* ------------------------------------------------------------ getters
\* http.Header.Get
HeaderGet(h, s) ==
  IF CanonicalMIMEHeaderKey(s) \in DOMAIN h THEN h[CanonicalMIMEHeaderKey(s)] ELSE ""

\* a header getter that goes on after a match, adding a Vary for every
\* header present and returning the first value
RECURSIVE HeadersGetterAll(_, _, _, _)
HeadersGetterAll(headers, resp, req, scanned) ==
  IF headers = <<>> THEN [v |-> "", w |-> resp, scanned |-> scanned]
  ELSE LET h == IF CanonicalMIMEHeaderKey(headers[1]) \in DOMAIN req.Header
                THEN req.Header[CanonicalMIMEHeaderKey(headers[1])] ELSE ""
           rest == HeadersGetterAll(Tail(headers),
                     IF h # "" THEN [resp EXCEPT !.Vary = Append(resp.Vary, headers[1])]
                     ELSE resp,
                     req, Append(scanned, headers[1]))
       IN [v |-> IF h # "" THEN h ELSE rest.v, w |-> rest.w, scanned |-> rest.scanned]

\* the getter of Headers (lines 93-102); scanned lists the names looked up
RECURSIVE HeadersGetter(_, _, _, _)
HeadersGetter(headers, resp, req, scanned) ==
  IF headers = <<>> THEN [v |-> "", w |-> resp, scanned |-> scanned]
  ELSE IF HeaderGet(req.Header, headers[1]) # ""
       THEN [v |-> HeaderGet(req.Header, headers[1]),
             w |-> [resp EXCEPT !.Vary = Append(resp.Vary, headers[1])],
             scanned |-> Append(scanned, headers[1])]
       ELSE HeadersGetter(Tail(headers), resp, req, Append(scanned, headers[1]))

\* the getter of FormField (lines 117-124)
FormFieldValue(fieldName, gf) ==
  [v |-> IF gf.found THEN FirstValue(gf.form.m, fieldName) ELSE "", call |-> gf]

FormFieldGetter(fieldName, req) == FormFieldValue(fieldName, getForm(req, TRUE))

\* the getter of Query (lines 220-222)
QueryGetter(paramName, req) == FirstValue(AddPairs(EmptyMap, req.RawQuery), paramName)

\* -------------------------------------------------------------- state
VARIABLES
  args,            \* the options passed to New
  opts,            \* the options struct the wrapper closes over
  n,               \* options of args applied so far
  pc,              \* where construction or the handler stands
  r,               \* the request the handler holds
  w,               \* the response as the middleware has left it
  originalMethod,  \* line 270
  newMethod,       \* line 272
  i,               \* position of options.get in the chain
  req,             \* the request as it was received
  invoked,         \* indexes of the extractors called, in call order
  scanned,         \* header names the last header extractor looked up
  reads,           \* reads of r.Body made by the middleware
  formCalls,       \* the calls of getForm with what each returned
  seen,            \* what the wrapped handler observed
  served           \* calls of next.ServeHTTP

vars == << args, opts, n, pc, r, w, originalMethod, newMethod, i, req,
           invoked, scanned, reads, formCalls, seen, served >>

reqVars == << r, w, originalMethod, newMethod, i, req, invoked, scanned,
              reads, formCalls, seen, served >>

InitWith(argSet) ==
  /\ args \in argSet
  /\ opts = NewOptions
  /\ n = 0
  /\ pc = "new"
  /\ r = NoRequest
  /\ w = NoResponse
  /\ originalMethod = ""
  /\ newMethod = ""
  /\ i = 0
  /\ req = NoRequest
  /\ invoked = <<>>
  /\ scanned = <<>>
  /\ reads = 0
  /\ formCalls = <<>>
  /\ seen = NotSeen
  /\ served = 0

\* New is entered with the arguments of a serving run
Init == InitWith(ServeArgs)

\* New is entered with any argument list of the construction runs
InitNew == InitWith(NewArgs)

\* ------------------------------------------------------- construction
\* lines 260-265: the default values
ConfigureDefaults ==
  /\ pc = "new"
  /\ opts' = configure(opts, DefaultOptions)
  /\ pc' = "configure"
  /\ UNCHANGED << args, n >>
  /\ UNCHANGED reqVars

\* line 266: one round of the loop of configure over the caller's options
ConfigureOpt ==
  /\ pc = "configure"
  /\ n < Len(args)
  /\ opts' = ApplyOption(opts, args[n + 1])
  /\ n' = n + 1
  /\ UNCHANGED << args, pc >>
  /\ UNCHANGED reqVars

\* line 268: New returns the wrapper
ReturnWrapper ==
  /\ pc = "configure"
  /\ n = Len(args)
  /\ pc' = "idle"
  /\ UNCHANGED << args, opts, n >>
  /\ UNCHANGED reqVars

\* ------------------------------------------------------------ handler
\* line 269: the server calls the wrapper's handler with a request
Receive(q) ==
  /\ r' = q
  /\ req' = q
  /\ w' = NoResponse
  /\ pc' = "serve"
  /\ UNCHANGED << args, opts, n, originalMethod, newMethod, i, invoked,
                  scanned, reads, formCalls, seen, served >>

\* lines 270-271: the eligibility check
CheckMethod ==
  /\ pc = "serve"
  /\ originalMethod' = ToUpper(r.Method)
  /\ IF canOverride(opts, ToUpper(r.Method))
     THEN pc' = "get" /\ i' = 1
     ELSE pc' = "next" /\ i' = i
  /\ UNCHANGED << args, opts, n, r, w, newMethod, req, invoked, scanned,
                  reads, formCalls, seen, served >>

\* lines 35-36 and 273: what options.get does with a getter's value
GetStep(v) ==
  /\ invoked' = Append(invoked, i)
  /\ IF v # ""
     THEN newMethod' = ToUpper(v) /\ pc' = "set" /\ i' = i
     ELSE newMethod' = newMethod /\ pc' = "get" /\ i' = i + 1

\* what a header extractor's call leaves
HeadersStep(res) ==
  /\ w' = res.w
  /\ scanned' = res.scanned
  /\ GetStep(res.v)

\* options.get calls a header extractor
GetHeaders ==
  /\ pc = "get"
  /\ i <= Len(opts.getters)
  /\ opts.getters[i].kind = "Headers"
  /\ HeadersStep(HeadersGetter(opts.getters[i].names, w, r, <<>>))
  /\ UNCHANGED << args, opts, n, r, originalMethod, req, reads, formCalls,
                  seen, served >>

\* what a form-field extractor's call leaves
FormFieldStep(res) ==
  /\ r' = res.call.r
  /\ reads' = reads + res.call.reads
  /\ formCalls' = Append(formCalls,
                    [form |-> res.call.form, found |-> res.call.found,
                     reads |-> res.call.reads, parsed |-> res.call.parsed])
  /\ GetStep(res.v)

\* options.get calls a form-field extractor
GetFormField ==
  /\ pc = "get"
  /\ i <= Len(opts.getters)
  /\ opts.getters[i].kind = "FormField"
  /\ FormFieldStep(FormFieldGetter(opts.getters[i].names[1], r))
  /\ UNCHANGED << args, opts, n, w, originalMethod, req, scanned, seen, served >>

\* options.get calls a query extractor
GetQuery ==
  /\ pc = "get"
  /\ i <= Len(opts.getters)
  /\ opts.getters[i].kind = "Query"
  /\ GetStep(QueryGetter(opts.getters[i].names[1], r))
  /\ UNCHANGED << args, opts, n, r, w, originalMethod, req, scanned, reads,
                  formCalls, seen, served >>

\* line 40: the chain is exhausted, options.get returns ""
GetNothing ==
  /\ pc = "get"
  /\ i > Len(opts.getters)
  /\ newMethod' = ""
  /\ pc' = "next"
  /\ UNCHANGED << args, opts, n, r, w, originalMethod, i, req, invoked,
                  scanned, reads, formCalls, seen, served >>

\* a context entry that holds the method as received, not upper-cased
WithReceivedMethod(request, key, method) ==
  IF key # Nil THEN [request EXCEPT !.ctx = Append(request.ctx, <<key, request.Method>>)]
  ELSE request

\* lines 274-276: the context entry of the derived request
WithOriginalMethod(request, key, method) ==
  IF key # Nil THEN [request EXCEPT !.ctx = Append(request.ctx, <<key, method>>)] ELSE request

\* lines 273-278: the override
Override ==
  /\ pc = "set"
  /\ r' = [WithOriginalMethod(r, opts.saveOriginalMethodContextKey, originalMethod)
             EXCEPT !.Method = newMethod]
  /\ pc' = "next"
  /\ UNCHANGED << args, opts, n, w, originalMethod, newMethod, i, req,
                  invoked, scanned, reads, formCalls, seen, served >>

\* line 281: the wrapped handler runs; it looks at the method and the
\* context and reads the body to its end
ServeNext ==
  /\ pc = "next"
  /\ seen' = [Method |-> r.Method, ctx |-> r.ctx,
              body |-> ReadAll(r.Body).data, bodyErr |-> ReadAll(r.Body).err]
  /\ served' = served + 1
  /\ pc' = "done"
  /\ UNCHANGED << args, opts, n, r, w, originalMethod, newMethod, i, req,
                  invoked, scanned, reads, formCalls >>

NextNew == ConfigureDefaults \/ ConfigureOpt \/ ReturnWrapper

Next ==
  \/ ConfigureDefaults
  \/ ConfigureOpt
  \/ ReturnWrapper
  \/ (pc = "idle" /\ \E q \in Requests : Receive(q))
  \/ CheckMethod
  \/ GetHeaders
  \/ GetFormField
  \/ GetQuery
  \/ GetNothing
  \/ Override
  \/ ServeNext

Spec == Init /\ [][Next]_vars

SpecNew == InitNew /\ [][NextNew]_vars

\* ---------------------------------------------- vocabulary of the claims
\* the configured eligible set M
MethodSet == {opts.methods[k] : k \in 1..Len(opts.methods)}

\* a request has been handed to the handler
Handling == pc \in {"serve", "get", "set", "next", "done"}

\* the values of the pairs of a body or query that are named name
FieldValues(pairs, name) ==
  {pairs[k][2] : k \in {j \in 1..Len(pairs) : pairs[j][1] = name}}

\* the first value named name, or ""
RECURSIVE FirstField(_, _)
FirstField(pairs, name) ==
  IF pairs = <<>> THEN ""
  ELSE IF pairs[1][1] = name THEN pairs[1][2] ELSE FirstField(Tail(pairs), name)

\* the received body is a form that arrives whole and parses
BodyIsForm ==
  /\ req.ContentType \in {CtForm, CtMultipart}
  /\ ~req.Body.broken
  /\ \A k \in 1..Len(req.Body.data) : req.Body.data[k] # Bad

\* positions of names whose header the received request carries
Matching(names) == {k \in 1..Len(names) : HeaderGet(req.Header, names[k]) # ""}

First(S) == CHOOSE k \in S : \A j \in S : k <= j

\* the override values the received request carries in the source of g
CarriedBy(g) ==
  CASE g.kind = "Headers" -> {HeaderGet(req.Header, g.names[k]) : k \in Matching(g.names)}
    [] g.kind = "FormField" ->
         IF BodyIsForm THEN FieldValues(req.Body.data, g.names[1]) ELSE {}
    [] OTHER -> FieldValues(req.RawQuery, g.names[1])

Carried == UNION {CarriedBy(opts.getters[j]) : j \in 1..Len(opts.getters)}

\* some form-field extractor has been called
FormInvoked ==
  \E j \in 1..Len(invoked) : opts.getters[invoked[j]].kind = "FormField"

\* context.Value: the value of the latest entry under key, or Nil
RECURSIVE ContextValue(_, _)
ContextValue(ctx, key) ==
  IF ctx = <<>> THEN Nil
  ELSE IF ctx[Len(ctx)][1] = key THEN ctx[Len(ctx)][2]
  ELSE ContextValue(SubSeq(ctx, 1, Len(ctx) - 1), key)

\* ---------------------------------------------------------------- C1
\* C1: a request whose method is in the eligible set and that carries an
\* override value in a configured header, form field or query parameter
\* reaches the wrapped handler with the upper-cased value as its method.
C1_Claim ==
  (pc = "done" /\ req.Method \in MethodSet /\ Carried # {})
    => seen.Method \in {ToUpper(v) : v \in Carried}

\* ---------------------------------------------------------------- C2
\* C2: for a request whose upper-cased method is not eligible no
\* extractor is called, no Vary is added, the body is not read, no form is
\* parsed, no context entry is added, and the handler sees the method as
\* it was received.
C2_Ineligible ==
  (Handling /\ ToUpper(req.Method) \notin MethodSet) =>
     /\ invoked = <<>>
     /\ w.Vary = <<>>
     /\ reads = 0
     /\ formCalls = <<>>
     /\ r = req
     /\ pc = "done" => (seen.Method = req.Method /\ seen.ctx = <<>>
                          /\ seen.body = ReadAll(req.Body).data)

C2_Witness ==
  /\ pc = "done"
  /\ ToUpper(req.Method) \notin MethodSet
  /\ req.Header["X-Http-Method"] # ""
  /\ req.RawQuery # <<>>
  /\ req.Body.data # <<>>
  /\ opts.saveOriginalMethodContextKey # Nil

\* ---------------------------------------------------------------- C3
\* C3: the chain is evaluated in registration order and stops at the first
\* extractor that returns a value; with the default chain the header's
\* value wins over the form field's and the form field's over the query
\* parameter's, and nothing registered after the winner is called.
C3_Claim ==
  /\ invoked = [j \in 1..Len(invoked) |-> j]
  /\ (pc = "done" /\ req.Method \in MethodSet
        /\ opts.getters = << GetterOf(DefaultOptions[2]), GetterOf(DefaultOptions[3]),
                             GetterOf(DefaultOptions[4]) >>) =>
       LET names == DefaultOptions[2].names
           hv == IF Matching(names) = {} THEN ""
                 ELSE HeaderGet(req.Header, names[First(Matching(names))])
           fv == IF BodyIsForm THEN FirstField(req.Body.data, "_method") ELSE ""
           qv == FirstField(req.RawQuery, "_method")
       IN /\ hv # "" => (seen.Method = ToUpper(hv) /\ invoked = <<1>>
                           /\ reads = 0 /\ formCalls = <<>>)
          /\ (hv = "" /\ fv # "") => (seen.Method = ToUpper(fv) /\ invoked = <<1, 2>>)
          /\ (hv = "" /\ fv = "" /\ qv # "") => seen.Method = ToUpper(qv)

\* ---------------------------------------------------------------- C4
\* C4: when the form-field extractor has run on a POST, PUT or PATCH
\* request whose body reads without error, the wrapped handler reads the
\* original body, whole and from its first chunk.
C4_BodyPreserved ==
  (pc = "done" /\ FormInvoked /\ req.Method \in {"POST", "PUT", "PATCH"}
     /\ ~req.Body.broken)
    => (seen.body = req.Body.data /\ ~seen.bodyErr)

C4_Witness ==
  /\ pc = "done"
  /\ req.Method = "POST"
  /\ req.ContentType = CtForm
  /\ req.Body.data # <<>>
  /\ ~req.Body.broken
  /\ formCalls # <<>>
  /\ formCalls[1].reads = 2
  /\ seen.Method = "PUT"
  /\ seen.body = req.Body.data

\* ---------------------------------------------------------------- C5
\* C5: with a preserve key configured, the handler of an overridden
\* request finds the upper-cased original method in the context under the
\* key; with no key, or a key cleared by nil, the handler's request has no
\* context entry.
C5_Context ==
  pc = "done" =>
    /\ (opts.saveOriginalMethodContextKey # Nil /\ newMethod # "") =>
         ContextValue(seen.ctx, opts.saveOriginalMethodContextKey) = ToUpper(req.Method)
    /\ opts.saveOriginalMethodContextKey = Nil => seen.ctx = <<>>

C5_Witness ==
  /\ pc = "done"
  /\ opts.saveOriginalMethodContextKey = "_originalMethod"
  /\ req.Method = "post"
  /\ seen.Method = "DELETE"
  /\ ContextValue(seen.ctx, "_originalMethod") = "POST"

\* ---------------------------------------------------------------- C6
\* the extractors a list of options registers, an Only starting afresh
RECURSIVE ChainOf(_, _)
ChainOf(chain, optSeq) ==
  IF optSeq = <<>> THEN chain
  ELSE LET opt == optSeq[1] IN
       ChainOf(CASE opt.kind = "Only" -> ChainOf(<<>>, opt.inner)
                 [] opt.kind \in {"Headers", "FormField", "Query"} ->
                      Append(chain, [kind |-> opt.kind, names |-> opt.names])
                 [] OTHER -> chain,
               Tail(optSeq))

\* C6: an Only(o...) discards every extractor registered before it, the
\* three default ones included: the chain New ends with is the extractors
\* of the last Only followed by those of the options after it (the
\* default three followed by all of them when there is no Only), and
\* applying an Only changes neither the eligible set nor the preserve key.
C6_Only ==
  /\ pc = "idle" =>
       LET onlys == {k \in 1..Len(args) : args[k].kind = "Only"}
           last == CHOOSE k \in onlys : \A j \in onlys : j <= k
       IN IF onlys = {}
          THEN opts.getters =
                 ChainOf(<< [kind |-> "Headers",
                             names |-> <<"X-HTTP-Method", "X-HTTP-Method-Override",
                                         "X-Method-Override">>],
                            [kind |-> "FormField", names |-> <<"_method">>],
                            [kind |-> "Query", names |-> <<"_method">>] >>, args)
          ELSE opts.getters =
                 ChainOf(<<>>, args[last].inner)
                   \o ChainOf(<<>>, SubSeq(args, last + 1, Len(args)))
  /\ (pc = "configure" /\ n > 0 /\ args[n].kind = "Only") =>
       /\ opts.methods = configure(NewOptions, DefaultOptions \o SubSeq(args, 1, n - 1)).methods
       /\ opts.saveOriginalMethodContextKey =
            configure(NewOptions, DefaultOptions \o SubSeq(args, 1, n - 1)).saveOriginalMethodContextKey

C6_Witness ==
  /\ pc = "idle"
  /\ Len(args) = 3
  /\ args[1].kind = "Query"
  /\ args[2] = Only(<<Headers(<<"X-Custom">>)>>)
  /\ args[3].kind = "FormField"
  /\ opts.getters = << [kind |-> "Headers", names |-> <<"X-Custom">>],
                       [kind |-> "FormField", names |-> <<"alt">>] >>

\* ---------------------------------------------------------------- C7
\* the last extractor called was a header extractor and gave the override
HeaderResolved ==
  /\ pc \in {"set", "next", "done"}
  /\ newMethod # ""
  /\ invoked # <<>>
  /\ opts.getters[invoked[Len(invoked)]].kind = "Headers"

\* C7: a header extractor that resolves the override uses the first name
\* of its list whose header is non-empty, adds the single response header
\* Vary: <that name> and looks at no later name; when the request carries
\* no configured header, or is not eligible, no Vary header is added.
C7_Vary ==
  /\ HeaderResolved =>
       LET names == opts.getters[invoked[Len(invoked)]].names
           k == First(Matching(names))
       IN /\ Matching(names) # {}
          /\ newMethod = ToUpper(HeaderGet(req.Header, names[k]))
          /\ w.Vary = <<names[k]>>
          /\ scanned = SubSeq(names, 1, k)
  /\ (Handling /\ (ToUpper(req.Method) \notin MethodSet
                   \/ \A j \in 1..Len(opts.getters) :
                        opts.getters[j].kind = "Headers"
                          => Matching(opts.getters[j].names) = {}))
       => w.Vary = <<>>

C7_Witness ==
  /\ pc = "done"
  /\ req.Header["X-Http-Method"] # ""
  /\ req.Header["X-Method-Override"] # ""
  /\ w.Vary = <<"X-HTTP-Method">>
  /\ scanned = <<"X-HTTP-Method">>
  /\ seen.Method = "HEAD"

C9_Claim ==
  Len(formCalls) >= 2 =>
    /\ formCalls[2].form = formCalls[1].form
    /\ formCalls[2].found = formCalls[1].found
    /\ formCalls[2].reads = 0

\* C9 amended: when the first call of getForm in a request found form
\* values, the second call returns the same (form, found) and does not
\* read the body again.
C9_Cached ==
  (Len(formCalls) >= 2 /\ formCalls[1].found) =>
    /\ formCalls[2].form = formCalls[1].form
    /\ formCalls[2].found
    /\ formCalls[2].reads = 0
    /\ formCalls[2].parsed = 0

C9_Witness ==
  /\ Len(formCalls) = 2
  /\ formCalls[1].found
  /\ formCalls[1].reads = 2
  /\ formCalls[2].found
  /\ formCalls[2].reads = 0

\* --------------------------------------------------------------- C10
\* C10: on a request whose method is not POST, PUT or PATCH the form-field
\* extractor never reads the body, whatever the content type, and the
\* wrapped handler receives the body unread.
C10_Claim ==
  (Handling /\ req.Method \notin {"POST", "PUT", "PATCH"}) =>
    /\ r.Body = req.Body
    /\ pc = "done" => seen.body = ReadAll(req.Body).data

====
